---- MODULE Spec2Model ----
(***************************************************************************)
(* zmq/web/zmqweb.py: the front-end dispatchers (ZMQApplicationProxy and   *)
(* ZMQStreamingApplicationProxy), their registry of pending requests, the  *)
(* timeout timer of each request, and the back-end receive callback        *)
(* (ZMQApplication._handle_request).                                       *)
(*                                                                         *)
(* Every callback of the event loop (an _execute, a reply frame list, a    *)
(* timer expiry, an inbound request frame list) is one atomic action: the  *)
(* loop is single-threaded.  The HTTP handler is an external collaborator: *)
(* the model records the calls the dispatcher makes on it and the two      *)
(* flags the dispatcher sets, and lets any write/flush/finish call raise.  *)
(***************************************************************************)
EXTENDS Integers, Sequences, FiniteSets, TLC

\* ------------------------------------------------------------------ bounds
\* Number of reply frame lists the dispatcher forwards to a handler.
MaxReplies == 3
\* Longest reply frame list.
MaxFrames == 3
\* Longest inbound frame list of the back end.
MaxInFrames == 5
\* Number of requests the back end dispatches.
MaxInbound == 1
\* Longest identity prefix the transport puts before a request.
MaxIdents == 3
\* Number of write and finish calls made on request representations.
MaxCalls == 3

\* ----------------------------------------------------------------- values
None == "None"
\* Correlation ids uuid4 can mint.
Ids == {"u1", "u2"}
\* The handlers of the HTTP requests in flight, in the order of their _execute call.
HandlerSeq == <<"h1", "h2">>
Handlers == {HandlerSeq[k] : k \in 1..Len(HandlerSeq)}
NoHandler == "none"
Tags == {"DATA", "FINISH"}
Chunks == {"a", "b"}
Timeouts == {-1, 0, 5000}
Methods == {"GET", "TRACE"}
SUPPORTED_METHODS == {"GET", "HEAD", "POST", "DELETE", "PUT", "OPTIONS"}
Exceptions == {"socket.error", "Exception"}

\* uuid4 returns a new id each time: the ids are named in the order minted.
IdSeq == <<"u1", "u2">>

\* The reply frame lists the transport can hand to on_recv.  The dispatcher
\* compares frame 0 with the registry's keys and frame 1 with the tags, and
\* reads every later frame as an opaque chunk.
RECURSIVE ChunkSeqs(_)
ChunkSeqs(n) ==
    IF n = 0 THEN {<<>>}
    ELSE LET shorter == ChunkSeqs(n - 1)
         IN shorter \cup {Append(s, c) : s \in {t \in shorter : Len(t) = n - 1}, c \in Chunks}
ReplyMsgs ==
    {<<>>} \cup {<<i>> : i \in Ids}
           \cup {<<i, r>> \o cs : i \in Ids, r \in Tags \cup Chunks, cs \in ChunkSeqs(MaxFrames - 2)}

Min(a, b) == IF a < b THEN a ELSE b

VARIABLES
    mode,        \* which dispatcher class was constructed: "bulk" | "streaming"
    _callbacks,  \* the registry: msg_id -> (handler, dc), Absent for no key
    timers,      \* each DelayedCallback, by the msg_id its closure holds
    handlers,    \* each handler: the calls received, _headers_written, _transforms
    minted,      \* the msg_ids uuid4 has returned
    nreplies,    \* reply frame lists forwarded to a handler so far
    arrived,     \* per msg_id, the chunks of the [id, DATA, chunk] lists processed
                 \* while its entry was in the registry, in arrival order
    requests,    \* back end: the request representations dispatched to a handler
    bev,         \* back end: the last _handle_request call: the length of its frame
                 \* list, the place of its first delimiter (0: none), what was
                 \* logged, what escaped, whether a handler was dispatched
    sent,        \* back end: the frame lists handed to stream.send_multipart, in
                 \* order, each with the index of the representation that sent it
    wlog,        \* back end: the write and finish calls made on the request
                 \* representations, in order, each with the callback it invoked
    carried,     \* transport: the identity prefix and the correlation id of the
                 \* request the last inbound frame list was built from
    delivered,   \* transport: how many frame lists of sent reached the front end
    codec,       \* transport: a request record handed to send_request, the frame
                 \* list it was encoded to, the identity prefix put before it and
                 \* what _parse_request made of the result
    ev           \* the last callback run: op; for a reply that found its entry, the
                 \* msg_id and the frame list; what a handler call raised, what was
                 \* logged, what escaped the callback; for a send, the timeout

vars == <<mode, _callbacks, timers, handlers, minted, nreplies, arrived, requests, bev,
          sent, wlog, carried, delivered, codec, ev>>
\* The state of the front-end process and of the back-end process.
frontend == <<_callbacks, timers, handlers, minted, nreplies, arrived, ev>>
backend == <<requests, bev, sent, wlog>>
\* The state of the transport between them.
transport == <<carried, delivered, codec>>

\* A key the registry does not hold.
Absent == [present |-> FALSE, handler |-> NoHandler, dc |-> None]
\* The value _callbacks[msg_id] = (handler, dc).
Entry(handler, dc) == [present |-> TRUE, handler |-> handler, dc |-> dc]

NoEvent == [op |-> "init", id |-> None, frames |-> <<>>, pending |-> FALSE,
            raised |-> None, exc |-> None, log |-> None, timeout |-> 0]

NoRequest == [op |-> "init", n |-> 0, delim |-> 0, exc |-> None, log |-> None,
              dispatched |-> FALSE]

NoCarried == [P |-> <<>>, I |-> None]

NoCodec == [stage |-> "init", record |-> <<>>, msg_list |-> <<>>, P |-> <<>>,
            decoded |-> <<>>]

Init ==
    /\ mode \in {"bulk", "streaming"}
    /\ _callbacks = [i \in Ids |-> Absent]
    /\ timers = [i \in Ids |-> [st |-> "unset", handler |-> NoHandler]]
    /\ handlers = [h \in Handlers |->
                     [calls |-> <<>>, _headers_written |-> FALSE,
                      _transforms |-> None, executed |-> FALSE]]
    /\ minted = {}
    /\ nreplies = 0
    /\ arrived = [i \in Ids |-> <<>>]
    /\ ev = NoEvent
    /\ requests = <<>>
    /\ bev = NoRequest
    /\ sent = <<>>
    /\ wlog = <<>>
    /\ carried = NoCarried
    /\ delivered = 0
    /\ codec = NoCodec

\* ------------------------------------------------------- DelayedCallback
\* dc.start(): the one-shot timer is armed.
dc_start(t, id, handler) == [t EXCEPT ![id] = [st |-> "running", handler |-> handler]]
\* dc.stop(): the timer is cancelled and its callback never runs.
dc_stop(t, id) == [t EXCEPT ![id].st = "stopped"]
\* The event loop runs the callback of a timer only while it is armed, once.
dc_expired(t, id) == t[id].st = "running"

\* ------------------------------------------------------------- handlers
Called(hs, h, calls) == [hs EXCEPT ![h].calls = @ \o calls]
\* Mutant of WriteCalls: the chunks are written last frame first.
WriteCalls_reversed(chunks) == [k \in 1..Len(chunks) |-> <<"write", chunks[Len(chunks) + 1 - k]>>]
\* for reply in replies: handler.write(reply)
WriteCalls(chunks) == [k \in 1..Len(chunks) |-> <<"write", chunks[k]>>]

\* --------------------------------------------- ZMQApplicationProxy (91-126)
\* Mutant of HasTimeout: a timeout of 0 arms a timer too.
HasTimeout_zero(timeout) == timeout >= 0
\* if timeout > 0:
HasTimeout(timeout) == timeout > 0

\* send_request: mints a fresh msg_id, arms a timer when timeout > 0 and
\* registers (handler, dc) under the msg_id.
send_request(handler, timeout, msg_id) ==
    /\ timers' = IF HasTimeout(timeout) THEN dc_start(timers, msg_id, handler) ELSE timers
    /\ _callbacks' = [_callbacks EXCEPT
                        ![msg_id] = Entry(handler, IF HasTimeout(timeout) THEN msg_id ELSE None)]
    /\ minted' = minted \cup {msg_id}

\* Mutant of uuid4: the id of the first request is returned again.
uuid4_repeat == IdSeq[1]
\* uuid.uuid4(): an id no request was sent under.
uuid4 == IdSeq[Cardinality(minted) + 1]

\* ZMQRequestHandlerProxy._execute: nulls the transforms and, for a supported
\* method, sends the request to the proxy with the handler's timeout.
_execute(h, method, timeout) ==
    /\ \E k \in 1..Len(HandlerSeq) :
          /\ h = HandlerSeq[k]
          /\ \A j \in 1..Len(HandlerSeq) : handlers[HandlerSeq[j]].executed <=> j < k
    /\ handlers' = [handlers EXCEPT ![h]._transforms = "empty", ![h].executed = TRUE]
    /\ IF method \in SUPPORTED_METHODS
       THEN /\ Cardinality(minted) < Len(IdSeq)
            /\ send_request(h, timeout, uuid4)
            /\ ev' = [NoEvent EXCEPT !.op = "send", !.id = uuid4, !.timeout = timeout]
       ELSE /\ UNCHANGED <<_callbacks, timers, minted>>
            /\ ev' = [NoEvent EXCEPT !.op = "send", !.raised = "HTTPError",
                                     !.log = "Unexpected error in _execute"]
    /\ UNCHANGED <<mode, nreplies, arrived, backend>>

\* Mutant of Lookup: the lookup of any key returns the entry of the first id.
Lookup_first(cb, msg_id) == cb[IdSeq[1]]
\* self._callbacks.get(msg_id) / .pop(msg_id, None): None for a missing key.
Lookup(cb, msg_id) == IF msg_id \in Ids THEN cb[msg_id] ELSE Absent
\* Mutants of Pop: the entry is left in the registry; the registry is emptied.
Pop_keep(cb, msg_id) == cb
Pop_clear(cb, msg_id) == [i \in Ids |-> Absent]
\* self._callbacks.pop(msg_id): the registry without the key.
Pop(cb, msg_id) == [i \in Ids |-> IF i = msg_id THEN Absent ELSE cb[i]]

\* _handle_timeout, the callback of the timer send_request armed for msg_id:
\* signals 504 to the handler of its closure, then removes the entry.
_handle_timeout(msg_id) ==
    /\ dc_expired(timers, msg_id)
    /\ timers' = [timers EXCEPT ![msg_id].st = "fired"]
    /\ handlers' = Called(handlers, timers[msg_id].handler, <<(<<"send_error", "504">>)>>)
    /\ _callbacks' = Pop(_callbacks, msg_id)
    /\ ev' = [NoEvent EXCEPT !.op = "timeout", !.id = msg_id,
                !.pending = _callbacks[msg_id].present,
                !.log = IF _callbacks[msg_id].present THEN None
                        ELSE "Unexpected error removing callbacks"]
    /\ UNCHANGED <<mode, minted, nreplies, arrived, backend>>


\* Mutant of Dropped: the callback empties the registry before it returns.
Dropped_clear == _callbacks' = [i \in Ids |-> Absent] /\ UNCHANGED <<timers, handlers>>
\* A reply the callback returns from without acting on it (the return of a
\* frame list too short, cb is None, no branch for the tag): the registry,
\* the timers and the handlers are as they were.
Dropped == UNCHANGED <<_callbacks, timers, handlers>>

\* The reply names a pending request: the dispatcher finds its entry.
Forwarded(msg_list) == Len(msg_list) >= 2 /\ Lookup(_callbacks, msg_list[1]).present

\* What ev keeps of a frame list too short to carry a reply: the list when
\* its frame names a pending request, nothing otherwise.
Short(msg_list) ==
    IF Len(msg_list) = 1 /\ Lookup(_callbacks, msg_list[1]).present THEN msg_list ELSE <<>>

\* A handler call that raises: the at-th call of the callback raises exc.
NoFault == [at |-> 0, exc |-> None]
Faults(ncalls) == {NoFault} \cup {[at |-> k, exc |-> e] : k \in 1..ncalls, e \in Exceptions}

\* Mutant of ExceptAll: the exception is logged and raised again.
ExceptAll_reraise(raised, msg) ==
    IF raised = None THEN [exc |-> None, log |-> None] ELSE [exc |-> raised, log |-> msg]
\* try: ... except: logging.error(msg), for a try block that raised `raised`
\* (None: it did not raise): every exception is caught and logged.
ExceptAll(raised, msg) ==
    IF raised = None THEN [exc |-> None, log |-> None] ELSE [exc |-> None, log |-> msg]

\* ZMQApplicationProxy._handle_reply (128-153)
\* The handler calls a reply makes: write per chunk, then finish.
BulkCalls(msg_list) ==
    IF Len(msg_list) >= 2 /\ Lookup(_callbacks, msg_list[1]).present THEN Len(msg_list) ELSE 0

ZMQApplicationProxy_handle_reply(msg_list, fault) ==
    /\ mode = "bulk"
    /\ nreplies < MaxReplies
    /\ nreplies' = IF Forwarded(msg_list) THEN nreplies + 1 ELSE nreplies
    /\ IF Len(msg_list) < 2
       THEN /\ ev' = [NoEvent EXCEPT !.op = "reply", !.frames = Short(msg_list),
                        !.log = "Unexpected reply from proxy"]
            /\ Dropped
       ELSE LET msg_id == msg_list[1]
                replies == Tail(msg_list)
                cb == Lookup(_callbacks, msg_id)
                n == Len(replies)
                \* the calls made before the try block is left
                made == IF fault.at = 0 THEN n + 1 ELSE Min(fault.at, n + 1)
                raised == IF fault.at # 0 /\ fault.at <= n + 1 THEN fault.exc ELSE None
                out == ExceptAll(raised, "Unexpected error in ZMQApplicationProxy._handle_reply")
                calls == WriteCalls(SubSeq(replies, 1, Min(made, n)))
                           \o (IF made = n + 1 THEN <<(<<"finish">>)>> ELSE <<>>)
            IN IF cb.present
               THEN /\ _callbacks' = Pop(_callbacks, msg_id)
                    /\ timers' = IF cb.dc # None THEN dc_stop(timers, cb.dc) ELSE timers
                    /\ handlers' = [Called(handlers, cb.handler, calls) EXCEPT
                          ![cb.handler]._headers_written =
                              IF made = n + 1 THEN TRUE ELSE @,
                          ![cb.handler]._transforms =
                              IF made = n + 1 THEN "empty" ELSE @]
                    /\ ev' = [NoEvent EXCEPT !.op = "reply", !.id = msg_id,
                                !.frames = msg_list, !.pending = TRUE,
                                !.raised = raised, !.exc = out.exc, !.log = out.log]
               ELSE /\ ev' = [NoEvent EXCEPT !.op = "reply", !.id = msg_id]
                    /\ Dropped
    /\ UNCHANGED <<mode, minted, arrived, backend>>

\* ------------------------------------ ZMQStreamingApplicationProxy (167-209)
\* The module's imports (39-54) bind no name "socket".
SocketImported == FALSE

\* try: ... except socket.error: pass / except: logging.error(msg), for a try
\* block that raised `raised` (None: it did not raise, no clause is evaluated).
\* Evaluating the expression socket.error of the first clause raises NameError
\* when the name is unbound, and that exception leaves the try statement.
ExceptSocketError(raised, msg) ==
    IF raised = None THEN [exc |-> None, log |-> None]
    ELSE IF ~SocketImported THEN [exc |-> "NameError", log |-> None]
    ELSE IF raised = "socket.error" THEN [exc |-> None, log |-> None]
    ELSE [exc |-> None, log |-> msg]

\* Mutant of Disarm: the entry is removed with its timer.
Disarm_remove(cb, msg_id) == [cb EXCEPT ![msg_id] = Absent]
\* self._callbacks[msg_id] = (handler, None): the entry stays, its handle cleared.
Disarm(cb, msg_id) == [cb EXCEPT ![msg_id] = Entry(cb[msg_id].handler, None)]

\* The handler calls a reply makes: write and flush for DATA, finish for FINISH.
StreamingCalls(msg_list) ==
    IF Len(msg_list) >= 2 /\ Lookup(_callbacks, msg_list[1]).present
    THEN IF msg_list[2] = "DATA" /\ Len(msg_list) = 3 THEN 2
         ELSE IF msg_list[2] = "FINISH" THEN 1
         ELSE 0
    ELSE 0

ZMQStreamingApplicationProxy_handle_reply(msg_list, fault) ==
    /\ mode = "streaming"
    /\ nreplies < MaxReplies
    /\ nreplies' = IF Forwarded(msg_list) THEN nreplies + 1 ELSE nreplies
    /\ IF Len(msg_list) < 2
       THEN /\ ev' = [NoEvent EXCEPT !.op = "reply", !.frames = Short(msg_list),
                        !.log = "Unexpected reply from proxy"]
            /\ Dropped
       ELSE LET msg_id == msg_list[1]
                reply == msg_list[2]
                cb == Lookup(_callbacks, msg_id)
                this == IF cb.present
                        THEN [NoEvent EXCEPT !.op = "reply", !.id = msg_id,
                                !.frames = msg_list, !.pending = TRUE]
                        ELSE [NoEvent EXCEPT !.op = "reply", !.id = msg_id]
            IN IF ~cb.present
               THEN /\ ev' = this
                    /\ Dropped
               ELSE IF reply = "DATA" /\ Len(msg_list) = 3
               THEN LET raised == IF fault.at \in {1, 2} THEN fault.exc ELSE None
                        out == ExceptSocketError(raised, "Unexpected write error")
                        calls == IF fault.at = 1
                                 THEN <<(<<"write", msg_list[3]>>)>>
                                 ELSE <<(<<"write", msg_list[3]>>), (<<"flush">>)>>
                    IN /\ timers' = IF cb.dc # None THEN dc_stop(timers, cb.dc) ELSE timers
                       /\ _callbacks' = IF cb.dc # None THEN Disarm(_callbacks, msg_id)
                                        ELSE _callbacks
                       /\ handlers' = [Called(handlers, cb.handler, calls) EXCEPT
                             ![cb.handler]._headers_written = IF fault.at = 1 THEN @ ELSE TRUE,
                             ![cb.handler]._transforms = IF fault.at = 1 THEN @ ELSE "empty"]
                       /\ ev' = [this EXCEPT !.raised = raised, !.exc = out.exc, !.log = out.log]
               ELSE IF reply = "FINISH"
               THEN LET raised == IF fault.at = 1 THEN fault.exc ELSE None
                        out == ExceptSocketError(raised, "Unexpected finish error")
                    IN /\ _callbacks' = Pop(_callbacks, msg_id)
                       /\ handlers' = Called(handlers, cb.handler, <<(<<"finish">>)>>)
                       /\ ev' = [this EXCEPT !.raised = raised, !.exc = out.exc, !.log = out.log]
                       /\ UNCHANGED timers
               ELSE /\ ev' = this
                    /\ Dropped
    /\ arrived' = IF Forwarded(msg_list) /\ msg_list[2] = "DATA" /\ Len(msg_list) = 3
                  THEN [arrived EXCEPT ![msg_list[1]] = Append(@, msg_list[3])]
                  ELSE arrived
    /\ UNCHANGED <<mode, minted, backend>>

\* ------------------------------------------------------------ event loop
Next ==
    \/ \E h \in Handlers, method \in Methods, timeout \in Timeouts :
          _execute(h, method, timeout) /\ UNCHANGED transport
    \/ \E msg_id \in Ids : _handle_timeout(msg_id) /\ UNCHANGED transport
    \/ \E msg_list \in ReplyMsgs : \E fault \in Faults(BulkCalls(msg_list)) :
          ZMQApplicationProxy_handle_reply(msg_list, fault) /\ UNCHANGED transport
    \/ \E msg_list \in ReplyMsgs : \E fault \in Faults(StreamingCalls(msg_list)) :
          ZMQStreamingApplicationProxy_handle_reply(msg_list, fault) /\ UNCHANGED transport

Spec == Init /\ [][Next]_vars

\* The armed timer of every request eventually expires.
SpecFair == Spec /\ \A i \in Ids : WF_vars(_handle_timeout(i) /\ UNCHANGED transport)

\* ---------------------------------------------------- ZMQApplication (434-467)
\* The delimiter between the identities and the rest of a request.
Delim == "|"
\* A frame that is the JSON of a request record; no other frame here is JSON.
Meta == "{meta}"
InFrames == {Delim, Meta, "x", "y"}

RECURSIVE InSeqs(_)
InSeqs(n) ==
    IF n = 0 THEN {<<>>}
    ELSE LET shorter == InSeqs(n - 1)
         IN shorter \cup {Append(s, f) : s \in {t \in shorter : Len(t) = n - 1}, f \in InFrames}
\* The frame lists the transport can hand to the back end.
RequestMsgs == InSeqs(MaxInFrames)

\* msg_list.index(b'|'), counted from 1; 0 where Python raises ValueError.
Index(msg_list) ==
    IF \E k \in 1..Len(msg_list) : msg_list[k] = Delim
    THEN CHOOSE k \in 1..Len(msg_list) :
            msg_list[k] = Delim /\ \A j \in 1..(k - 1) : msg_list[j] # Delim
    ELSE 0

\* _parse_request: the exception it raises (None: it returns) and the request
\* representation it returns.
_parse_request(msg_list) ==
    LET i == Index(msg_list)
        n == Len(msg_list)
        failed(e) == [exc |-> e, request |-> <<>>]
    IN IF n < 4 THEN failed("IndexError")
       ELSE IF i = 0 THEN failed("ValueError")
       ELSE IF i + 1 > n THEN failed("IndexError")
       ELSE IF i + 2 > n THEN failed("IndexError")
       ELSE IF msg_list[i + 2] # Meta THEN failed("ValueError")
       ELSE [exc |-> None,
             request |-> [idents |-> SubSeq(msg_list, 1, i - 1),
                          msg_id |-> msg_list[i + 1],
                          body |-> IF n = i + 3 THEN msg_list[i + 3] ELSE "",
                          _chunks |-> <<>>,
                          _write_callback |-> None]]

\* try: ... except IndexError: logging.error(msg), for a try block that raised
\* `raised`: any other exception leaves the callback.
ExceptIndexError(raised, msg) ==
    IF raised = None THEN [exc |-> None, log |-> None]
    ELSE IF raised = "IndexError" THEN [exc |-> None, log |-> msg]
    ELSE [exc |-> raised, log |-> None]

\* _handle_request, the on_recv callback of the back end: parses the frame list
\* and, when that raised nothing, dispatches the request to a handler.
_handle_request(msg_list) ==
    LET parsed == _parse_request(msg_list)
        out == ExceptIndexError(parsed.exc,
                  "Unexpected request message format in ZMQApplication._handle_request.")
    IN /\ Len(requests) < MaxInbound
       /\ requests' = IF parsed.exc = None THEN Append(requests, parsed.request)
                      ELSE requests
       /\ bev' = [op |-> "request", n |-> Len(msg_list), delim |-> Index(msg_list),
                  exc |-> out.exc, log |-> out.log, dispatched |-> parsed.exc = None]
       /\ UNCHANGED <<mode, frontend, sent, wlog>>

NextBackend ==
    \E msg_list \in RequestMsgs : _handle_request(msg_list) /\ UNCHANGED transport

SpecBackend == Init /\ [][NextBackend]_vars

\* ------------------------- ZMQHTTPRequest, ZMQStreamingHTTPRequest (268-384)
\* The write-completion callbacks a handler passes to write (None: no callback).
Callbacks == {None, "cb"}

\* Mutant of _create_msg_list: the frame list starts at the msg_id.
_create_msg_list_bare(r) == <<r.msg_id>>
\* _create_msg_list: a new list of the idents followed by the msg_id.
_create_msg_list(r) == r.idents \o <<r.msg_id>>

\* The entry of wlog for the call op(chunk, callback) on representation k that
\* invoked the callback ran.
Call(k, op, chunk, callback, ran) ==
    [by |-> k, op |-> op, chunk |-> chunk, callback |-> callback, ran |-> ran]
\* stream.send_multipart(msg_list) by representation k.
Send(k, msg_list) == Append(sent, [by |-> k, frames |-> msg_list])

\* Mutant of Buffer: the chunk is put before the buffered ones.
Buffer_front(chunks, chunk) == <<chunk>> \o chunks
\* self._chunks.append(chunk)
Buffer(chunks, chunk) == Append(chunks, chunk)

\* ZMQHTTPRequest.write: buffers the chunk and keeps the callback.
ZMQHTTPRequest_write(k, chunk, callback) ==
    /\ mode = "bulk"
    /\ k \in 1..Len(requests)
    /\ Len(wlog) < MaxCalls
    /\ requests' = [requests EXCEPT
                       ![k]._write_callback = IF callback # None THEN callback ELSE @,
                       ![k]._chunks = Buffer(@, chunk)]
    /\ wlog' = Append(wlog, Call(k, "write", chunk, callback, None))
    /\ UNCHANGED <<mode, frontend, bev, sent>>

\* ZMQHTTPRequest.finish: sends the idents, the msg_id and the buffered chunks
\* as one frame list, empties the buffer, runs and clears the kept callback.
ZMQHTTPRequest_finish(k) ==
    /\ mode = "bulk"
    /\ k \in 1..Len(requests)
    /\ Len(wlog) < MaxCalls
    /\ sent' = Send(k, _create_msg_list(requests[k]) \o requests[k]._chunks)
    /\ requests' = [requests EXCEPT ![k]._chunks = <<>>, ![k]._write_callback = None]
    /\ wlog' = Append(wlog, Call(k, "finish", None, None, requests[k]._write_callback))
    /\ UNCHANGED <<mode, frontend, bev>>

\* ZMQStreamingHTTPRequest.write: sends the chunk in a DATA frame list of its
\* own and runs the callback at once.
ZMQStreamingHTTPRequest_write(k, chunk, callback) ==
    /\ mode = "streaming"
    /\ k \in 1..Len(requests)
    /\ Len(wlog) < MaxCalls
    /\ sent' = Send(k, _create_msg_list(requests[k]) \o <<"DATA", chunk>>)
    /\ wlog' = Append(wlog, Call(k, "write", chunk, callback, callback))
    /\ UNCHANGED <<mode, frontend, bev, requests>>

\* ZMQStreamingHTTPRequest.finish: sends the FINISH frame list.
ZMQStreamingHTTPRequest_finish(k) ==
    /\ mode = "streaming"
    /\ k \in 1..Len(requests)
    /\ Len(wlog) < MaxCalls
    /\ sent' = Send(k, _create_msg_list(requests[k]) \o <<"FINISH">>)
    /\ wlog' = Append(wlog, Call(k, "finish", None, None, None))
    /\ UNCHANGED <<mode, frontend, bev, requests>>

\* The frames of an identity prefix: opaque to the back end, so any frame.
IdentFrames == InFrames
RECURSIVE IdentSeqs(_)
IdentSeqs(n) ==
    IF n = 0 THEN {<<>>}
    ELSE LET shorter == IdentSeqs(n - 1)
         IN shorter \cup {Append(s, f) : s \in {t \in shorter : Len(t) = n - 1},
                                        f \in IdentFrames}
Prefixes == IdentSeqs(MaxIdents)
\* if body: msg_list.append(body)
Bodies == {<<>>, <<"x">>}

\* The frame list the back end receives for the request the front end sent
\* under msg_id, the transport having put the identity prefix P before it.
Inbound(P, msg_id, body) == P \o <<Delim, msg_id, Meta>> \o body

\* One request reaches the back end through the transport and the handler it
\* is dispatched to calls write and finish on its representation.  (The
\* representations share nothing but the stream: one is followed.)
NextRep ==
    \/ \E P \in Prefixes, msg_id \in Ids, body \in Bodies :
          /\ requests = <<>>
          /\ _handle_request(Inbound(P, msg_id, body))
          /\ carried' = [P |-> P, I |-> msg_id]
          /\ UNCHANGED <<delivered, codec>>
    \/ \E k \in 1..Len(requests), chunk \in Chunks, callback \in Callbacks :
          ZMQHTTPRequest_write(k, chunk, callback) /\ UNCHANGED transport
    \/ \E k \in 1..Len(requests) :
          ZMQHTTPRequest_finish(k) /\ UNCHANGED transport
    \/ \E k \in 1..Len(requests), chunk \in Chunks, callback \in Callbacks :
          ZMQStreamingHTTPRequest_write(k, chunk, callback) /\ UNCHANGED transport
    \/ \E k \in 1..Len(requests) :
          ZMQStreamingHTTPRequest_finish(k) /\ UNCHANGED transport

SpecRep == Init /\ [][NextRep]_vars

\* --------------------------------- the request on the wire (93-112, 445-467)
\* The request records send_request is handed: the attributes of the HTTP
\* request it reads, and the args and kwargs of the handler.  A mapping is the
\* sequence of its items.
RequestRecords ==
    [method : {"GET", "POST"}, uri : {"/widgets/7"}, version : {"HTTP/1.1"},
     headers : {<<>>, <<(<<"Accept", "text/html">>)>>},
     body : {"", "ok"},
     remote_ip : {"10.0.0.1", None}, protocol : {"http"}, host : {"w"},
     files : {<<>>},
     arguments : {<<>>, <<(<<"q", "1">>)>>},
     args : {<<>>, <<"7">>},
     kwargs : {<<>>, <<(<<"id", "7">>)>>}]

\* A frame of raw bytes; the frame jsonapi.dumps makes of a document.
Bytes(s) == [t |-> "bytes", v |-> s]
dumps(req) == [t |-> "json", v |-> req]
\* jsonapi.loads: the document of a frame dumps made, ValueError for other bytes.
IsJSON(frame) == frame.t = "json"
loads(frame) == frame.v
IsDelim(frame) == frame.t = "bytes" /\ frame.v = Delim

\* Mutant of BodyFrame: the body frame is appended whatever the body.
BodyFrame_always(body) == <<Bytes(body)>>
\* if body: msg_list.append(body)
BodyFrame(body) == IF body # "" THEN <<Bytes(body)>> ELSE <<>>

\* send_request, lines 93-110: the frame list built for a request record.
send_request_msg_list(r, msg_id) ==
    LET req == [method |-> r.method, uri |-> r.uri, version |-> r.version,
                headers |-> r.headers, remote_ip |-> r.remote_ip,
                protocol |-> r.protocol, host |-> r.host, files |-> r.files,
                arguments |-> r.arguments, args |-> r.args, kwargs |-> r.kwargs]
    IN <<Bytes(Delim), Bytes(msg_id), dumps(req)>> \o BodyFrame(r.body)

\* ZMQHTTPRequest.__init__ (286-296): headers or HTTPHeaders(), body or "",
\* files or {}: a false value is replaced by the empty value of the attribute.
Or(value, false, empty) == IF value \in false THEN empty ELSE value

\* _parse_request on a frame list whose metadata frame is a document: the
\* exception it raises (None: it returns) and the record of the request
\* representation, args and kwargs it returns.
_parse_request_record(msg_list) ==
    LET n == Len(msg_list)
        i == IF \E k \in 1..n : IsDelim(msg_list[k])
             THEN CHOOSE k \in 1..n :
                     IsDelim(msg_list[k]) /\ \A j \in 1..(k - 1) : ~IsDelim(msg_list[j])
             ELSE 0
        failed(e) == [exc |-> e, record |-> <<>>]
    IN IF n < 4 THEN failed("IndexError")
       ELSE IF i = 0 THEN failed("ValueError")
       ELSE IF i + 1 > n THEN failed("IndexError")
       ELSE IF i + 2 > n THEN failed("IndexError")
       ELSE IF ~IsJSON(msg_list[i + 2]) THEN failed("ValueError")
       ELSE LET req == loads(msg_list[i + 2])
                body == IF n = i + 3 THEN msg_list[i + 3].v ELSE ""
            IN [exc |-> None,
                record |-> [method |-> req.method, uri |-> req.uri,
                            version |-> req.version,
                            headers |-> Or(req.headers, {<<>>}, <<>>),
                            body |-> Or(body, {"", None}, ""),
                            remote_ip |-> req.remote_ip, protocol |-> req.protocol,
                            host |-> req.host, files |-> Or(req.files, {<<>>}, <<>>),
                            arguments |-> req.arguments,
                            args |-> req.args, kwargs |-> req.kwargs]]

\* The identity prefixes the transport puts before the frame list: none when
\* the list is handed to _parse_request as encoded.
CodecPrefixes == {<<>>, <<Bytes("x")>>, <<Bytes("x"), Bytes("y")>>}

\* send_request encodes a request record.
Encode(r, msg_id) ==
    /\ codec.stage = "init"
    /\ codec' = [codec EXCEPT !.stage = "encoded", !.record = r,
                               !.msg_list = send_request_msg_list(r, msg_id)]
    /\ UNCHANGED <<mode, frontend, backend, carried, delivered>>

\* _parse_request decodes the frame list behind the identity prefix P.
Decode(P) ==
    /\ codec.stage = "encoded"
    /\ codec' = [codec EXCEPT !.stage = "decoded", !.P = P,
                               !.decoded = _parse_request_record(P \o codec.msg_list)]
    /\ UNCHANGED <<mode, frontend, backend, carried, delivered>>

NextCodec ==
    \/ \E r \in RequestRecords, msg_id \in Ids : Encode(r, msg_id)
    \/ \E P \in CodecPrefixes : Decode(P)

SpecCodec == Init /\ [][NextCodec]_vars

\* ------------------------------------------------------------ end to end
\* The identity prefix the ROUTER socket of the back end puts before a request
\* (two hops), the timeouts of the front-end handlers, the method and the body
\* of the requests followed end to end.
E2EPrefixes == {<<"x", "y">>}
E2ETimeouts == {0, 5000}
E2EMethods == {"GET"}
E2EBodies == {<<>>}
\* The ROUTER socket routes a frame list by its identity prefix and hands the
\* frames after it to the peer.
Strip(frames, P) == SubSeq(frames, Len(P) + 1, Len(frames))

\* The transport hands the request sent under msg_id to the back end.
E2E_request(P, msg_id, body) ==
    /\ requests = <<>>
    /\ msg_id \in minted
    /\ _handle_request(Inbound(P, msg_id, body))
    /\ carried' = [P |-> P, I |-> msg_id]
    /\ UNCHANGED <<delivered, codec>>

\* The transport hands the next frame list the back end sent to the front
\* end: the frame lists of one socket arrive in the order they were sent.
E2E_reply ==
    /\ delivered < Len(sent)
    /\ delivered' = delivered + 1
    /\ LET msg_list == Strip(sent[delivered + 1].frames, carried.P)
       IN \/ ZMQApplicationProxy_handle_reply(msg_list, NoFault)
          \/ ZMQStreamingApplicationProxy_handle_reply(msg_list, NoFault)
    /\ UNCHANGED <<carried, codec>>

\* The frame lists the representation of another request sends: DATA and
\* FINISH lists from the streaming class, the msg_id and a chunk from the
\* bulk class.
OtherChunks == {"b"}
OtherReplies ==
    IF mode = "streaming"
    THEN {<<i, "DATA", c>> : i \in Ids, c \in OtherChunks} \cup {<<i, "FINISH">> : i \in Ids}
    ELSE {<<i, c>> : i \in Ids, c \in OtherChunks}

\* A reply frame list of another worker, for another request.
E2E_other(msg_list) ==
    /\ requests # <<>>
    /\ msg_list[1] # carried.I
    /\ \/ ZMQApplicationProxy_handle_reply(msg_list, NoFault)
       \/ ZMQStreamingApplicationProxy_handle_reply(msg_list, NoFault)
    /\ UNCHANGED transport

\* Front end, transport and back end together: one request is followed through
\* the back end, the replies for the other one arrive as they may.  No call on
\* a front-end handler raises.
NextE2E ==
    \/ \E h \in Handlers, method \in E2EMethods, timeout \in E2ETimeouts :
          _execute(h, method, timeout) /\ UNCHANGED transport
    \/ \E msg_id \in Ids : _handle_timeout(msg_id) /\ UNCHANGED transport
    \/ \E P \in E2EPrefixes, msg_id \in Ids, body \in E2EBodies :
          E2E_request(P, msg_id, body)
    \/ \E k \in 1..Len(requests), chunk \in Chunks :
          ZMQHTTPRequest_write(k, chunk, None) /\ UNCHANGED transport
    \/ \E k \in 1..Len(requests) :
          ZMQHTTPRequest_finish(k) /\ UNCHANGED transport
    \/ \E k \in 1..Len(requests), chunk \in Chunks :
          ZMQStreamingHTTPRequest_write(k, chunk, None) /\ UNCHANGED transport
    \/ \E k \in 1..Len(requests) :
          ZMQStreamingHTTPRequest_finish(k) /\ UNCHANGED transport
    \/ E2E_reply
    \/ \E msg_list \in OtherReplies : E2E_other(msg_list)

SpecE2E == Init /\ [][NextE2E]_vars

\* C8: an inbound frame list with fewer than 4 frames or without a delimiter
\* frame makes _handle_request dispatch no handler (so that no reply is sent
\* for it) and lets no exception leave the callback.
C8_MalformedDropped ==
    [][(bev'.op = "request" /\ (bev'.n < 4 \/ bev'.delim = 0))
          => (bev'.exc = None /\ ~bev'.dispatched /\ requests' = requests)]_vars

\* ----------------------------------------------------------- properties
Calls(h) == handlers[h].calls
Finish == <<"finish">>
Flush == <<"flush">>
SendError504 == <<"send_error", "504">>
Has(calls, c) == \E k \in 1..Len(calls) : calls[k] = c
Count(calls, c) == Cardinality({k \in 1..Len(calls) : calls[k] = c})
IsWrite(c) == c[1] = "write"
\* write(c1), .., write(cn), one call per chunk, first chunk first.
RECURSIVE WritesOf(_)
WritesOf(chunks) ==
    IF chunks = <<>> THEN <<>> ELSE <<(<<"write", Head(chunks)>>)>> \o WritesOf(Tail(chunks))
Pending(i) == _callbacks[i].present
\* The request was sent with timeout > 0: send_request created a timer for it.
Timed(i) == timers[i].st # "unset"

\* C1: a request with a timeout is completed by at most one path: no handler
\* receives both finish() from the reply path and send_error(504) from the
\* timeout path, however the reply frame lists and the expiry interleave.
C1_OneCompletionPath ==
    \A h \in Handlers : ~(Has(Calls(h), Finish) /\ Has(Calls(h), SendError504))

\* C2: when the timer of a request expires before any reply for its id was
\* forwarded, the timeout callback has run once, the handler has received
\* send_error(504) once and nothing else, then or later, and the entry is gone.
C2_TimeoutFirst ==
    \A i \in Ids :
        (timers[i].st = "fired" /\ Head(Calls(timers[i].handler)) = SendError504)
            => /\ Calls(timers[i].handler) = <<SendError504>>
               /\ ~Pending(i)

\* A reply for the id arrived after its timeout had claimed the entry.
C2_Witness ==
    /\ ev.op = "reply" /\ ev.id = "u1" /\ ~ev.pending
    /\ timers["u1"].st = "fired"
    /\ Calls(timers["u1"].handler) = <<SendError504>>
    /\ ~Pending("u1")

\* C3: a timeout callback that finds no entry for its id does nothing: no
\* send_error(504) reaches the handler and the registry is unchanged.
C3_LateTimeoutDoesNothing ==
    [][(ev'.op = "timeout" /\ ~ev'.pending)
          => (handlers' = handlers /\ _callbacks' = _callbacks)]_vars

\* C4: in the bulk dispatcher a reply [id, c1..cn] for a pending id removes the
\* entry and stops an armed timer, which never runs afterwards; when no handler
\* call raises, the handler receives write(c1)..write(cn) in frame order, has
\* _headers_written set and _transforms emptied, and then receives finish() once.
C4_BulkReply ==
    [][/\ (mode = "bulk" /\ ev'.op = "reply" /\ ev'.pending)
            => LET i == ev'.id
                   h == _callbacks[i].handler
               IN /\ Pending(i) /\ ~_callbacks'[i].present
                  /\ ev'.frames[1] = i /\ Len(ev'.frames) >= 2
                  /\ Timed(i) => timers[i].st = "running" /\ timers'[i].st = "stopped"
                  /\ ev'.raised = None
                       => /\ handlers'[h].calls = WritesOf(Tail(ev'.frames)) \o <<Finish>>
                          /\ handlers'[h]._headers_written
                          /\ handlers'[h]._transforms = "empty"
       /\ \A i \in Ids : timers[i].st = "stopped" => timers'[i].st = "stopped"]_vars

C4_Witness ==
    /\ mode = "bulk" /\ ev.op = "reply" /\ ev.pending /\ ev.raised = None
    /\ ev.frames = <<"u1", "a", "b">>
    /\ timers["u1"].st = "stopped"
    /\ \E h \in Handlers :
          /\ Calls(h) = <<(<<"write", "a">>), (<<"write", "b">>), Finish>>
          /\ handlers[h]._headers_written

\* C5: in the streaming dispatcher an [id, DATA, chunk] for a pending id keeps
\* the entry, stops an armed timer and clears the entry's handle, and (when no
\* handler call raises) calls write(chunk) then flush(); an [id, FINISH] removes
\* the entry and calls finish() once, the handler having been handed exactly the
\* chunks of the DATA lists processed for the id, in arrival order.
C5_Streaming ==
    [][(mode = "streaming" /\ ev'.op = "reply" /\ ev'.pending)
          => LET i == ev'.id
                 m == ev'.frames
                 h == _callbacks[i].handler
             IN /\ (m[2] = "DATA" /\ Len(m) = 3)
                    => /\ _callbacks'[i] = Entry(h, None)
                       /\ timers[i].st = "running" => timers'[i].st = "stopped"
                       /\ timers'[i].st # "running"
                       /\ ev'.raised = None
                            => handlers'[h].calls = Calls(h) \o <<(<<"write", m[3]>>), Flush>>
                /\ (m = <<i, "FINISH">>)
                    => /\ ~_callbacks'[i].present
                       /\ handlers'[h].calls = Calls(h) \o <<Finish>>
                       /\ Count(handlers'[h].calls, Finish) = 1
                       /\ SelectSeq(handlers'[h].calls, IsWrite) = WritesOf(arrived[i])]_vars

\* FINISH after two DATA lists, the first of which disarmed the timer.
C5_Witness ==
    /\ mode = "streaming" /\ ev.op = "reply" /\ ev.pending
    /\ ev.frames = <<"u1", "FINISH">>
    /\ arrived["u1"] = <<"a", "b">>
    /\ timers["u1"].st = "stopped"
    /\ ~Pending("u1")
    /\ \E h \in Handlers :
          Calls(h) = <<(<<"write", "a">>), Flush, (<<"write", "b">>), Flush, Finish>>

\* C6 as claimed: every entry registered with timeout > 0 is eventually removed.
C6_EveryTimedEntryRemoved ==
    \A i \in Ids : (Pending(i) /\ Timed(i)) ~> ~Pending(i)

\* C6 amended: every entry registered with timeout > 0 is eventually removed,
\* or is an entry of the streaming dispatcher whose timer a DATA list disarmed
\* (it then stays until a FINISH for its id arrives).
C6_TimedEntryRemovedOrDisarmed ==
    \A i \in Ids :
        (Pending(i) /\ Timed(i))
            ~> (~Pending(i) \/ (mode = "streaming" /\ Pending(i) /\ _callbacks[i].dc = None))

\* The timeout removed the entry of a request no reply had resolved.
C6_Witness ==
    /\ ev.op = "timeout" /\ ev.pending
    /\ ~Pending(ev.id) /\ timers[ev.id].st = "fired"

\* C7: a reply whose first frame is id X changes the registry entry and the
\* timer of no other id, and calls only the handler registered under X.
C7_Routing ==
    [][ev'.op = "reply"
          => /\ \A y \in Ids \ {ev'.id} :
                   _callbacks'[y] = _callbacks[y] /\ timers'[y] = timers[y]
             /\ \A g \in Handlers :
                   (~ev'.pending \/ g # _callbacks[ev'.id].handler)
                       => handlers'[g] = handlers[g]
             /\ ev'.pending => Len(handlers'[_callbacks[ev'.id].handler].calls)
                                  >= Len(Calls(_callbacks[ev'.id].handler))]_vars

\* Two requests pending, one of them with an armed timer; the reply of the
\* other one is forwarded.
C7_Witness ==
    /\ ev.op = "reply" /\ ev.pending /\ ev.id = "u2"
    /\ Pending("u1") /\ timers["u1"].st = "running"
    /\ \E h \in Handlers : Calls(h) # <<>>
    /\ \E h \in Handlers : Calls(h) = <<>> /\ _callbacks["u1"].handler = h

\* C9: in the streaming dispatcher an exception raised by write/flush/finish
\* never leaves _handle_reply: socket.error is swallowed, anything else logged.
C9_StreamingAbsorbs ==
    (mode = "streaming" /\ ev.op = "reply" /\ ev.raised # None)
        => /\ ev.exc = None
           /\ ev.raised = "socket.error" => ev.log = None
           /\ ev.raised # "socket.error" => ev.log # None

\* C10: in the bulk dispatcher an exception raised by write or finish is caught
\* and logged inside _handle_reply and does not leave it; the entry is removed
\* and the timer stopped all the same.
C10_BulkAbsorbs ==
    (mode = "bulk" /\ ev.op = "reply" /\ ev.raised # None)
        => /\ ev.exc = None
           /\ ev.log = "Unexpected error in ZMQApplicationProxy._handle_reply"
           /\ ~Pending(ev.id)
           /\ timers[ev.id].st # "running"

\* write(b) raised after write(a): caught, the request with a timer resolved.
C10_Witness ==
    /\ mode = "bulk" /\ ev.op = "reply" /\ ev.raised = "Exception"
    /\ ev.frames = <<"u1", "a", "b">>
    /\ timers["u1"].st = "stopped" /\ ~Pending("u1")
    /\ \E h \in Handlers : Calls(h) = <<(<<"write", "a">>), (<<"write", "b">>)>>

\* C11: in the streaming dispatcher a reply for a pending id that is neither
\* exactly [id, DATA, chunk] nor exactly [id, FINISH] is dropped: the registry
\* and the timers are unchanged and no call is made on any handler.
C11_OnlyExactShapes ==
    [][(mode = "streaming" /\ ev'.op = "reply" /\ ev'.pending)
          => LET i == ev'.id
                 m == ev'.frames
             IN (~(m[2] = "DATA" /\ Len(m) = 3) /\ m # <<i, "FINISH">>)
                    => /\ _callbacks' = _callbacks
                       /\ timers' = timers
                       /\ handlers' = handlers]_vars

\* C12: in both dispatchers a reply of 2 or more frames whose id has no entry
\* in the registry calls no handler, touches no timer and leaves the registry
\* unchanged.
C12_UnknownIdDropped ==
    [][(ev'.op = "reply" /\ ev'.id \in Ids /\ ~Pending(ev'.id))
          => /\ handlers' = handlers
             /\ timers' = timers
             /\ _callbacks' = _callbacks]_vars

\* A second reply for an id an earlier reply resolved, another request pending.
C12_Witness ==
    /\ ev.op = "reply" /\ ev.id = "u1" /\ ~ev.pending
    /\ "u1" \in minted /\ ~Pending("u1") /\ timers["u1"].st = "stopped"
    /\ Has(Calls(timers["u1"].handler), Finish)
    /\ Pending("u2")

\* C13: in both dispatchers a reply frame list with fewer than 2 frames changes
\* neither the registry nor any timer nor any handler, and nothing is raised.
C13_ShortDropped ==
    [][(ev'.op = "reply" /\ ev'.id = None)
          => /\ _callbacks' = _callbacks
             /\ timers' = timers
             /\ handlers' = handlers
             /\ ev'.exc = None]_vars

\* The one frame of the list is the id of a pending request with an armed timer.
C13_Witness ==
    /\ ev.op = "reply" /\ ev.id = None /\ ev.frames = <<"u1">>
    /\ Pending("u1") /\ timers["u1"].st = "running"

\* The frame list begins with the frames of P followed by the id I.
BeginsWith(frames, P, I) ==
    /\ Len(frames) > Len(P)
    /\ SubSeq(frames, 1, Len(P) + 1) = P \o <<I>>

\* C14 as claimed: every frame list the representation of a request sends
\* begins with the identity prefix P the request came with, whatever its
\* frames, followed by the request's correlation id I.
C14_PrefixEcho ==
    Len(requests) = 1
        => \A j \in 1..Len(sent) : BeginsWith(sent[j].frames, carried.P, carried.I)

\* C14 amended: the same, for an identity prefix none of whose frames is the
\* delimiter.
C14_PrefixEchoNoDelim ==
    (Len(requests) = 1 /\ \A k \in 1..Len(carried.P) : carried.P[k] # Delim)
        => \A j \in 1..Len(sent) : BeginsWith(sent[j].frames, carried.P, carried.I)

\* A DATA and a FINISH frame list sent for a request that came with a prefix
\* of two different frames.
C14_Witness ==
    /\ Len(requests) = 1 /\ carried = [P |-> <<"x", "y">>, I |-> "u1"]
    /\ Len(sent) = 2
    /\ sent[1].frames = <<"x", "y", "u1", "DATA", "a">>
    /\ sent[2].frames = <<"x", "y", "u1", "FINISH">>

\* The decoding returned the record that was encoded: every attribute, args
\* and kwargs and the body; the frame list had a body frame iff the body was
\* not empty.
Reproduced ==
    /\ codec.decoded.exc = None
    /\ codec.decoded.record = codec.record
    /\ Len(codec.msg_list) = 4 <=> codec.record.body # ""

Keys == {i \in Ids : Pending(i)}

\* C16: the registry holds entries only under minted ids; send_request mints an
\* id that had no entry, adds exactly that entry and changes no other; a reply
\* or a timeout removes at most the entry of its own id and adds none: the key
\* set is the minted ids not yet removed by the reply or the timeout path.
C16_KeysAreMintedNotRemoved ==
    /\ [](Keys \subseteq minted)
    /\ [][/\ (ev'.op = "send" /\ ev'.id # None)
               => /\ ev'.id \notin minted /\ ~Pending(ev'.id)
                  /\ minted' = minted \cup {ev'.id}
                  /\ _callbacks'[ev'.id].present
                  /\ \A i \in Ids \ {ev'.id} : _callbacks'[i] = _callbacks[i]
          /\ ~(ev'.op = "send" /\ ev'.id # None)
               => /\ minted' = minted
                  /\ \A i \in Ids : _callbacks'[i].present => Pending(i)
                  /\ \A i \in Ids \ {ev'.id} : Pending(i) => _callbacks'[i].present]_vars

\* A second request is registered after the reply path removed the first.
C16_Witness ==
    /\ ev.op = "send" /\ ev.id = "u2"
    /\ minted = {"u1", "u2"} /\ Keys = {"u2"}
    /\ Has(Calls(HandlerSeq[1]), Finish)

\* The last call made on a request representation, when this step made one.
Called1 == Len(wlog') = Len(wlog) + 1
LastCall == wlog'[Len(wlog')]
\* The chunks written to representation k since its last finish, in order,
\* and the last callback those writes passed.
RECURSIVE WrittenSince(_, _)
WrittenSince(log, k) ==
    IF log = <<>> THEN <<>>
    ELSE LET c == log[Len(log)]
             before == SubSeq(log, 1, Len(log) - 1)
         IN IF c.by # k THEN WrittenSince(before, k)
            ELSE IF c.op = "finish" THEN <<>>
            ELSE Append(WrittenSince(before, k), c.chunk)
RECURSIVE PendingCallback(_, _)
PendingCallback(log, k) ==
    IF log = <<>> THEN None
    ELSE LET c == log[Len(log)]
             before == SubSeq(log, 1, Len(log) - 1)
         IN IF c.by # k THEN PendingCallback(before, k)
            ELSE IF c.op = "finish" THEN None
            ELSE IF c.callback # None THEN c.callback
            ELSE PendingCallback(before, k)

\* C17: on the bulk representation write(chunk) sends nothing and appends the
\* chunk to the buffer; finish() sends one frame list, the idents, the msg_id
\* and the buffered chunks, which are the chunks written since the last finish
\* in write order, empties the buffer, runs the pending callback and clears it.
C17_BulkRepresentation ==
    /\ [](mode = "bulk" =>
            \A k \in 1..Len(requests) :
                /\ requests[k]._chunks = WrittenSince(wlog, k)
                /\ requests[k]._write_callback = PendingCallback(wlog, k))
    /\ [][(mode = "bulk" /\ Called1)
            => LET c == LastCall
                   r == requests[c.by]
               IN /\ c.op = "write"
                      => /\ sent' = sent
                         /\ requests'[c.by]._chunks = r._chunks \o <<c.chunk>>
                  /\ c.op = "finish"
                      => /\ Len(sent') = Len(sent) + 1
                         /\ SubSeq(sent', 1, Len(sent)) = sent
                         /\ sent'[Len(sent')].frames
                               = r.idents \o <<r.msg_id>> \o WrittenSince(wlog, c.by)
                         /\ requests'[c.by]._chunks = <<>>
                         /\ c.ran = PendingCallback(wlog, c.by)
                         /\ requests'[c.by]._write_callback = None]_vars

\* write(a, cb), write(b), finish: one frame list, the callback run at finish.
C17_Witness ==
    /\ mode = "bulk" /\ Len(requests) = 1 /\ Len(wlog) = 3
    /\ wlog[1].op = "write" /\ wlog[1].callback = "cb" /\ wlog[2].callback = None
    /\ wlog[3].op = "finish" /\ wlog[3].ran = "cb"
    /\ Len(sent) = 1 /\ sent[1].frames = <<"x", "u1", "a", "b">>
    /\ requests[1]._chunks = <<>> /\ requests[1]._write_callback = None

\* C20: a send_request with timeout <= 0 creates and starts no timer and
\* registers the entry without a handle; no timer ever exists for the request,
\* its handler receives no send_error(504) (504 goes only to the handler of a
\* timer that fired, and a handler sends one request), and the entry leaves
\* the registry only in a reply step for its id.
C20_NoTimeoutNoTimer ==
    /\ [](\A h \in Handlers :
             Has(Calls(h), SendError504)
                 => \E j \in Ids : timers[j].handler = h /\ timers[j].st = "fired")
    /\ [](\A i \in Ids :
             (Pending(i) /\ ~Timed(i))
                 => /\ _callbacks[i].dc = None
                    /\ \A j \in Ids : timers[j].handler # _callbacks[i].handler)
    /\ [][/\ (ev'.op = "send" /\ ev'.id # None /\ ev'.timeout <= 0)
               => /\ timers' = timers
                  /\ timers'[ev'.id].st = "unset"
                  /\ _callbacks'[ev'.id].present /\ _callbacks'[ev'.id].dc = None
          /\ \A i \in Ids :
                (i \in minted /\ ~Timed(i))
                    => /\ timers'[i] = timers[i]
                       /\ (Pending(i) /\ ~_callbacks'[i].present)
                             => (ev'.op = "reply" /\ ev'.id = i)
                       /\ Pending(i)
                             => Count(handlers'[_callbacks[i].handler].calls, SendError504) = 0
          /\ \A j \in Ids :
                timers'[j].handler # timers[j].handler
                    => ~handlers[timers'[j].handler].executed]_vars

\* The request sent with timeout 0 is still pending after the timer of the
\* other request fired, and is then removed by its reply.
C20_Witness ==
    /\ ev.op = "reply" /\ ev.pending /\ ev.id = "u1"
    /\ timers["u1"].st = "unset" /\ "u1" \in minted /\ ~Pending("u1")
    /\ timers["u2"].st = "fired"
    /\ Calls(HandlerSeq[1]) # <<>> /\ ~Has(Calls(HandlerSeq[1]), SendError504)

\* The place of the first finish call in the log (0: none) and the chunks of
\* the write calls before it.
FirstFinish(log) ==
    IF \E n \in 1..Len(log) : log[n].op = "finish"
    THEN CHOOSE n \in 1..Len(log) :
            log[n].op = "finish" /\ \A j \in 1..(n - 1) : log[j].op # "finish"
    ELSE 0
WrittenFirst(log) == [j \in 1..(FirstFinish(log) - 1) |-> log[j].chunk]
\* write(c1), flush(), .., write(cn), flush()
RECURSIVE WriteFlushOf(_)
WriteFlushOf(chunks) ==
    IF chunks = <<>> THEN <<>>
    ELSE <<(<<"write", Head(chunks)>>), Flush>> \o WriteFlushOf(Tail(chunks))
\* The handler of the request the back end carries.
Owner == IF Lookup(_callbacks, carried.I).present THEN _callbacks[carried.I].handler
         ELSE timers[carried.I].handler
\* The request the back end carries has its entry in the registry.
Carried == Len(requests) = 1 /\ Lookup(_callbacks, carried.I).present
\* This step hands the j-th frame list the back end sent to the front end.
Delivers(j) == delivered = j - 1 /\ delivered' = j

\* C19: bulk, end to end: the back-end handler wrote one or more chunks and
\* finished; when that reply is delivered while the request is pending, its
\* front-end handler has received exactly write(c1)..write(cn) in write order
\* and finish(), has _headers_written set, and the entry is removed; no handler
\* is ever finished twice.
C19_BulkEndToEnd ==
    /\ [](mode = "bulk" => \A h \in Handlers : Count(Calls(h), Finish) <= 1)
    /\ [][(mode = "bulk" /\ Delivers(1) /\ WrittenFirst(wlog) # <<>>
              /\ Carried)
            => LET h == _callbacks[carried.I].handler
               IN /\ handlers'[h].calls = WritesOf(WrittenFirst(wlog)) \o <<Finish>>
                  /\ handlers'[h]._headers_written
                  /\ ~_callbacks'[carried.I].present]_vars

\* write(a), write(b), finish() behind a prefix of two frames, the request
\* sent with a timeout, the reply of the other request forwarded as well.
C19_Witness ==
    /\ mode = "bulk" /\ delivered = 1 /\ carried = [P |-> <<"x", "y">>, I |-> "u2"]
    /\ sent[1].frames = <<"x", "y", "u2", "a", "b">>
    /\ timers["u2"].st = "stopped" /\ ~Pending("u2")
    /\ Calls(timers["u2"].handler) = <<(<<"write", "a">>), (<<"write", "b">>), Finish>>
    /\ handlers[timers["u2"].handler]._headers_written
    /\ ~Pending("u1") /\ Has(Calls(HandlerSeq[1]), Finish)

\* What the streaming representation has sent: one frame list per call, DATA
\* with the chunk for a write, FINISH for a finish, each behind prefix and id.
StreamedAsCalled ==
    (mode = "streaming" /\ Len(requests) = 1)
        => /\ Len(sent) = Len(wlog)
           /\ \A j \in 1..Len(sent) :
                 sent[j].frames
                   = carried.P \o <<carried.I>>
                       \o (IF wlog[j].op = "write" THEN <<"DATA", wlog[j].chunk>>
                           ELSE <<"FINISH">>)

\* The first chunk of a pending request is processed: an armed timer is
\* stopped and the handle cleared; FINISH leaves the timers as they are.
DisarmedAtFirstChunk ==
    (mode = "streaming" /\ Carried)
        => /\ (Delivers(1) /\ wlog[1].op = "write")
                 => /\ timers[carried.I].st = "running"
                          => timers'[carried.I].st = "stopped"
                    /\ timers'[carried.I].st # "running"
                    /\ _callbacks'[carried.I] = Entry(_callbacks[carried.I].handler, None)
           /\ (delivered' = delivered + 1 /\ wlog[delivered'].op = "finish")
                 => timers' = timers

\* C18 as claimed: streaming, end to end: each write emits its DATA frame list
\* and finish emits FINISH; when the FINISH of write(c1)..write(cn), finish()
\* is delivered, the front-end handler of the request has received write(c1),
\* flush, .., write(cn), flush and then finish; the timer is disarmed at the
\* first chunk, not at FINISH.
C18_StreamingEndToEnd ==
    /\ []StreamedAsCalled
    /\ [][/\ DisarmedAtFirstChunk
          /\ (mode = "streaming" /\ FirstFinish(wlog) > 1 /\ Delivers(FirstFinish(wlog)))
               => /\ Owner \in Handlers
                  /\ handlers'[Owner].calls
                        = WriteFlushOf(WrittenFirst(wlog)) \o <<Finish>>]_vars

\* C18 amended: the same, for a request that is still pending (its timer has
\* not expired) when its frame lists are processed.
C18_StreamingEndToEndPending ==
    /\ []StreamedAsCalled
    /\ [][/\ DisarmedAtFirstChunk
          /\ (mode = "streaming" /\ FirstFinish(wlog) > 1 /\ Delivers(FirstFinish(wlog))
                 /\ Carried)
               => LET h == _callbacks[carried.I].handler
                  IN /\ handlers'[h].calls
                           = WriteFlushOf(WrittenFirst(wlog)) \o <<Finish>>
                     /\ ~_callbacks'[carried.I].present]_vars

\* write(a), write(b), finish() of a request sent with a timeout: the timer
\* stopped, the handler finished after both chunks.
C18_Witness ==
    /\ mode = "streaming" /\ delivered = 3 /\ carried = [P |-> <<"x", "y">>, I |-> "u2"]
    /\ sent[1].frames = <<"x", "y", "u2", "DATA", "a">>
    /\ sent[2].frames = <<"x", "y", "u2", "DATA", "b">>
    /\ sent[3].frames = <<"x", "y", "u2", "FINISH">>
    /\ timers["u2"].st = "stopped" /\ ~Pending("u2")
    /\ Calls(timers["u2"].handler)
          = <<(<<"write", "a">>), Flush, (<<"write", "b">>), Flush, Finish>>

\* C21: bulk, end to end: every frame list the representation sent from
\* finish() (after some writes or after none), delivered behind the stripped
\* identity prefix while the request is still pending, removes the entry of
\* the request and finalizes its handler.
C21_EveryFinishAccepted ==
    [][(mode = "bulk" /\ delivered' = delivered + 1 /\ Carried)
          => LET h == _callbacks[carried.I].handler
             IN /\ ~_callbacks'[carried.I].present
                /\ Has(handlers'[h].calls, Finish)]_vars

\* C22: once finish() has completed on a representation, no later write() or
\* finish() on it sends another frame list.
C22_NothingSentAfterFinish ==
    [][\A k \in 1..Len(requests) :
          (\E n \in 1..Len(wlog) : wlog[n].by = k /\ wlog[n].op = "finish")
             => sent' = sent]_vars

====
